---------------------------- MODULE Spec2Model ----------------------------
(***************************************************************************)
(* A model of src/word2vec.h (struct Model): build_vocab (vocabulary       *)
(* filter, Huffman tree, code/point traversal, table allocation), train    *)
(* (producer, worker threads, job queue, condition variable), save, load  *)
(* and most_similar (partial heap selection).                              *)
(*                                                                         *)
(* Numbers of type float are modelled in fixed point: the integer x stands *)
(* for x / One.  dot, saxpy and unit are computed on that representation,  *)
(* rounding toward zero.                                                   *)
(***************************************************************************)
EXTENDS Integers, Sequences, FiniteSets, TLC

VARIABLES
    \* ---- struct Model
    vocab_,        \* unordered_map<string, WordP>: text -> Word
    words_,        \* vector<Word *>: the pointed-to words' keys in vocab_
    syn0_, syn1_,  \* vector<Vector>
    syn0norm_,     \* vector<Vector>
    layer1_size_,  \* int
    min_count_,    \* int
    alpha_, min_alpha_,  \* float
    \* ---- inputs
    sentences,     \* vector<SentenceP>: [tokens_, words_]
    \* ---- build_vocab: position and locals
    bpc,           \* "idle", "filter", "merge", "walk", "alloc", "done", "trap"
    build_ret,     \* the value build_vocab returned (0, -1) once bpc = "done"
    vocab,         \* local unordered_map<string, int>
    n_words,       \* local int
    heap,          \* local vector<Word *> kept as a heap under comp
    tmp,           \* local vector<WordP>: the internal nodes
    merge_i,       \* the merge loop's i
    stack,         \* local list<tuple<Word *, points, codes>>
    max_depth,     \* local int
    \* ---- train: the producer (the calling thread)
    ppc,           \* "idle", "loop", "flush", "setdone", "sentinels", "join",
                   \* "returned"
    n_workers,     \* parameter
    total_words,   \* local int
    current_words, \* local int, shared with the workers without a lock
    jobs,          \* std::list<JobP>, guarded by the mutex m
    done,          \* volatile bool
    job,           \* the producer's JobP: the batch being filled
    sent_i,        \* the position of the sentence loop in sentences
    sentinel_i,    \* the sentinel loop's i
    train_ret,     \* the value train returned once ppc = "returned"
    \* ---- train: the workers
    wpc,           \* worker -> "lock", "wait", "job", "train", "add", "exit"
    wjob,          \* worker -> its JobP job
    wread,         \* worker -> the current_words it read to compute alpha
    wwords,        \* worker -> its local words
    wreg,          \* worker -> the current_words it read for `+= words'
    walpha,        \* worker -> its local alpha
    \* ---- train: history
    enqueued,      \* the non-null jobs handed to enqueue_job, in order
    trained,       \* the jobs whose sentences were trained, in order
    alphas,        \* [read, alpha]: the current_words read and the alpha
                   \* computed from it at line 191, in the order computed
    calls,         \* the number of calls of train so far
    \* ---- save
    spc,           \* "idle", "returned", "trap"
    disk,          \* the file save wrote: a sequence of lines of tokens
    saved,         \* history: the model's tables when save was called
    \* ---- load
    lfile,         \* history: the file load was given
    lpc,           \* "idle", "returned"
    load_ret,      \* the value load returned (0, -1) once lpc = "returned"
    \* ---- most_similar: parameters, position and locals
    qpc,           \* "idle", "scan", "sort", "walk", "returned"
    positive, negative, topn,
    stl,           \* the standard library the build links: its heap algorithms
    mean,          \* Vector
    all_words,     \* vector<int>
    dists,         \* Vector
    indexes,       \* vector<int>
    k,             \* int: last = first + k
    it,            \* the scan loop's iterator, as an offset from first
    results,       \* vector<pair<string, float>>
    walk_i, walk_j,\* the result loop's i and j
    returned       \* history: the index in syn0norm_ of each entry of results

qvars == <<lpc, load_ret, qpc, positive, negative, topn, stl, mean, all_words,
           dists, indexes, k, it, results, walk_i, walk_j, returned>>

bvars == <<vocab_, words_, syn0_, syn1_, syn0norm_, layer1_size_, min_count_,
           sentences, bpc, build_ret, vocab, n_words, heap, tmp,
           merge_i, stack, max_depth>>

tvars == <<ppc, n_workers, total_words, current_words, jobs, done, job,
           sent_i, sentinel_i, train_ret, wpc, wjob, wread, wwords, wreg,
           enqueued, trained>>

\* the learning rates of the constructor
fvars == <<alpha_, min_alpha_>>

\* the workers' alpha
avars == <<walpha, alphas, calls>>

\* what build_vocab leaves alone
svars == <<spc, disk, saved, lfile>>

nonbvars == <<tvars, qvars, fvars, avars, svars>>

vars == <<bvars, tvars, qvars, fvars, avars, svars>>

----------------------------------------------------------------------------
(* Bounds of the model. *)

\* the largest corpus count of a token in the corpora build_vocab is run on
MaxCount == 3
\* min_count_ ranges over -1 .. MaxMinCount
MaxMinCount == 1

\* The values ::time(NULL) seeds the random engine with.
Seeds == {0, 1}

\* The token alphabet, in a fixed order.
TokenSeq == <<"a", "b", "c", "d">>
Tokens == {TokenSeq[x] : x \in 1..Len(TokenSeq)}

\* Fixed point: the integer x stands for the float x / One.
One == 25

Max(x, y) == IF x >= y THEN x ELSE y
Min(x, y) == IF x <= y THEN x ELSE y

----------------------------------------------------------------------------
(* struct Word and the pointers to it. *)

\* A Word * : a leaf is owned by vocab_ (key text), an internal node by tmp
\* (position pos); NullP is the null pointer.
LeafP(t) == [leaf |-> TRUE, text |-> t, pos |-> 0]
TmpP(j) == [leaf |-> FALSE, text |-> "", pos |-> j]
NullP == [leaf |-> FALSE, text |-> "", pos |-> 0]

Word(index, text, count, left, right) ==
    [index_ |-> index, text_ |-> text, count_ |-> count,
     left_ |-> left, right_ |-> right, codes_ |-> <<>>, points_ |-> <<>>]

\* *p, read in the tables vm (vocab_) and tm (tmp)
Deref(vm, tm, p) == IF p.leaf THEN vm[p.text] ELSE tm[p.pos]

\* unordered_map::emplace: inserts only when the key is absent
Emplace(vm, t, w) ==
    IF t \in DOMAIN vm THEN vm
    ELSE [x \in (DOMAIN vm) \cup {t} |-> IF x = t THEN w ELSE vm[x]]

----------------------------------------------------------------------------
(* build_vocab: counting. *)

\* vocab[token] += 1
Incr(v, t) ==
    [x \in (DOMAIN v) \cup {t} |->
        IF x = t THEN (IF t \in DOMAIN v THEN v[t] + 1 ELSE 1) ELSE v[x]]

RECURSIVE CountSentence(_, _, _)
CountSentence(v, toks, j) ==
    IF j > Len(toks) THEN v
    ELSE CountSentence(Incr(v, toks[j]), toks, j + 1)

\* for (auto& sentence: sentences) for (auto& token: sentence->tokens_) ...
RECURSIVE CountTokens(_, _, _)
CountTokens(v, sents, s) ==
    IF s > Len(sents) THEN v
    ELSE CountTokens(CountSentence(v, sents[s].tokens_, 1), sents, s + 1)

\* The iteration orders an unordered_map over the key set S may have.
Orders(S) ==
    {f \in [1..Cardinality(S) -> S] :
        \A x, y \in 1..Cardinality(S) : x # y => f[x] # f[y]}

\* `count <= min_count_' with count a uint32_t and min_count_ an int: the
\* int is converted to unsigned, so a negative min_count_ compares as
\* min_count_ + 2^32, above every count below 2^31.
CountLeqMinCountMut(count, mc) == count < mc
CountLeqMinCount(count, mc) == IF mc < 0 THEN TRUE ELSE count <= mc

\* `Word{index, ...}; ++index': the index given to the j-th retained word
NextIndex(index) == index + 1

\* The filter loop over vocab in the order ord, from position j with the
\* local index, on the tables vm (vocab_) and wl (words_).
RECURSIVE FilterLoop(_, _, _, _, _, _, _)
FilterLoop(v, mc, ord, j, index, vm, wl) ==
    IF j > Len(ord) THEN [vocab_ |-> vm, words_ |-> wl]
    ELSE LET t == ord[j]
             count == v[t]
         IN IF CountLeqMinCount(count, mc)
            THEN FilterLoop(v, mc, ord, j + 1, index, vm, wl)
            ELSE FilterLoop(v, mc, ord, j + 1, NextIndex(index),
                            Emplace(vm, t, Word(index, t, count, NullP, NullP)),
                            Append(wl, t))

----------------------------------------------------------------------------
(* build_vocab: the Huffman merge loop. *)

\* auto comp = [](Word *w1, Word *w2) { return w1->count_ > w2->count_; }
compMut(w1, w2) == w1.count_ < w2.count_
comp(w1, w2) == w1.count_ > w2.count_

\* The elements std::pop_heap may move to the back of a heap h under comp:
\* those no other element is ordered after.  Which of several equal ones is
\* taken is the library's choice.
HeapTop(vm, tm, h) ==
    {p \in h : \A q \in h : ~comp(Deref(vm, tm, p), Deref(vm, tm, q))}

\* `new Word{i + n_words, ...}': the id of the i-th internal node
InternalIdMut(i, n) == i + n + 1
InternalId(i, n) == i + n

----------------------------------------------------------------------------
(* build_vocab: the traversal that stores codes_ and points_. *)

\* `word->points_ = ...; word->codes_ = ...' through the pointer p
StoreCodes(vm, tm, p, points, codes) ==
    IF p.leaf
    THEN [vocab_ |-> [vm EXCEPT ![p.text].points_ = points,
                                ![p.text].codes_ = codes],
          tmp |-> tm]
    ELSE [vocab_ |-> vm,
          tmp |-> [tm EXCEPT ![p.pos].points_ = points,
                             ![p.pos].codes_ = codes]]

\* `points.emplace_back(word->index_ - n_words)': the row of syn1_ of the
\* internal node of id index
PointOfMut(index, n) == index - n + 1
PointOf(index, n) == index - n

\* while (!stack.empty()) { ... } on the stack st, the tables vm (vocab_) and
\* tm (tmp), and max_depth md
RECURSIVE Traverse(_, _, _, _, _)
Traverse(st, vm, tm, md, n) ==
    IF st = <<>> THEN [vocab_ |-> vm, tmp |-> tm, max_depth |-> md]
    ELSE LET t == st[Len(st)]
             rest == SubSeq(st, 1, Len(st) - 1)
             word == Deref(vm, tm, t[1])
         IN IF word.index_ < n
            THEN LET r == StoreCodes(vm, tm, t[1], t[2], t[3])
                 IN Traverse(rest, r.vocab_, r.tmp, Max(Len(t[3]), md), n)
            ELSE LET points == Append(t[2], PointOf(word.index_, n))
                     codes1 == Append(t[3], 0)
                     codes2 == Append(t[3], 1)
                 IN Traverse(rest \o <<<<word.left_, points, codes1>>,
                                       <<word.right_, points, codes2>>>>,
                             vm, tm, md, n)

----------------------------------------------------------------------------
(* build_vocab: allocation. *)

\* (rng(eng) - 0.5) / layer1_size_ for row r, column c under seed sd: a
\* value in [-0.5 / layer1_size_, 0.5 / layer1_size_)
RandInit(sd, r, c) == ((sd + 2 * r + c) % 3) - 1

ZeroVector(n) == [c \in 1..n |-> 0]

----------------------------------------------------------------------------
(* build_vocab: the actions. *)

\* lines 71-86: count, then `if (n_words <= 1) return -1'
BuildCount ==
    /\ bpc = "idle"
    /\ LET v == CountTokens(<<>>, sentences, 1)
           n == Cardinality(DOMAIN v)
       IN /\ vocab' = v
          /\ n_words' = n
          /\ IF n <= 1
             THEN bpc' = "done" /\ build_ret' = -1
             ELSE bpc' = "filter" /\ build_ret' = build_ret
    /\ UNCHANGED <<vocab_, words_, syn0_, syn1_, syn0norm_, layer1_size_,
                   min_count_, sentences, heap, tmp, merge_i, stack,
                   max_depth>>
    /\ UNCHANGED nonbvars

\* lines 88-105: filter, n_words = vocab_.size(), heap = words_, make_heap
BuildFilter ==
    /\ bpc = "filter"
    /\ \E ord \in Orders(DOMAIN vocab) :
          LET r == FilterLoop(vocab, min_count_, ord, 1, 0, vocab_, words_)
          IN /\ vocab_' = r.vocab_
             /\ words_' = r.words_
             /\ n_words' = Cardinality(DOMAIN r.vocab_)
             /\ heap' = {LeafP(r.words_[x]) : x \in 1..Len(r.words_)}
    /\ tmp' = <<>>
    /\ merge_i' = 0
    /\ bpc' = "merge"
    /\ UNCHANGED <<syn0_, syn1_, syn0norm_, layer1_size_, min_count_,
                   sentences, build_ret, vocab, stack, max_depth>>
    /\ UNCHANGED nonbvars

\* lines 108-117: one iteration of the merge loop
BuildMerge ==
    /\ bpc = "merge"
    /\ merge_i < n_words - 1
    /\ \E min1 \in HeapTop(vocab_, tmp, heap) :
       \E min2 \in HeapTop(vocab_, tmp, heap \ {min1}) :
          LET w == Word(InternalId(merge_i, n_words), "",
                        Deref(vocab_, tmp, min1).count_
                            + Deref(vocab_, tmp, min2).count_,
                        min1, min2)
          IN /\ tmp' = Append(tmp, w)
             /\ heap' = (heap \ {min1, min2}) \cup {TmpP(Len(tmp) + 1)}
    /\ merge_i' = merge_i + 1
    /\ UNCHANGED <<vocab_, words_, syn0_, syn1_, syn0norm_, layer1_size_,
                   min_count_, sentences, bpc, build_ret, vocab,
                   n_words, stack, max_depth>>
    /\ UNCHANGED nonbvars

\* lines 119-122: the loop is over; the traversal starts at heap[0].  With no
\* word retained heap is empty and its storage is null: heap[0] is a load
\* through a null pointer, which traps.
BuildRoot ==
    /\ bpc = "merge"
    /\ ~(merge_i < n_words - 1)
    /\ IF heap = {}
       THEN bpc' = "trap" /\ stack' = stack
       ELSE /\ \E root \in heap : stack' = <<<<root, <<>>, <<>>>>>>
            /\ bpc' = "walk"
    /\ max_depth' = 0
    /\ UNCHANGED <<vocab_, words_, syn0_, syn1_, syn0norm_, layer1_size_,
                   min_count_, sentences, build_ret, vocab, n_words,
                   heap, tmp, merge_i>>
    /\ UNCHANGED nonbvars

\* lines 123-142: the traversal, to the empty stack
BuildWalk ==
    /\ bpc = "walk"
    /\ LET r == Traverse(stack, vocab_, tmp, max_depth, n_words)
       IN /\ vocab_' = r.vocab_
          /\ tmp' = r.tmp
          /\ max_depth' = r.max_depth
    /\ stack' = <<>>
    /\ bpc' = "alloc"
    /\ UNCHANGED <<words_, syn0_, syn1_, syn0norm_, layer1_size_, min_count_,
                   sentences, build_ret, vocab, n_words, heap, merge_i>>
    /\ UNCHANGED nonbvars

\* lines 144-157: allocate and initialise syn0_ (the engine seeded with
\* ::time(NULL), here sd) and syn1_, return 0
BuildAlloc ==
    /\ bpc = "alloc"
    /\ \E sd \in Seeds :
          syn0_' = [r \in 1..n_words |->
                       [c \in 1..layer1_size_ |-> RandInit(sd, r, c)]]
    /\ syn1_' = [r \in 1..n_words |-> ZeroVector(layer1_size_)]
    /\ bpc' = "done"
    /\ build_ret' = 0
    /\ UNCHANGED <<vocab_, words_, syn0norm_, layer1_size_, min_count_,
                   sentences, vocab, n_words, heap, tmp, merge_i,
                   stack, max_depth>>
    /\ UNCHANGED nonbvars

NextVocab ==
    \/ BuildCount
    \/ BuildFilter
    \/ BuildMerge
    \/ BuildRoot
    \/ BuildWalk
    \/ BuildAlloc

----------------------------------------------------------------------------
(* Vectors, in fixed point. *)

\* a / b rounded toward zero
Quot(a, b) == IF a >= 0 THEN a \div b ELSE -((-a) \div b)

RECURSIVE SumTo(_, _)
SumTo(f, n) == IF n = 0 THEN 0 ELSE f[n] + SumTo(f, n - 1)

\* static float dot(const Vector& x, const Vector& y)
dot(x, y) == Quot(SumTo([c \in 1..Len(x) |-> x[c] * y[c]], Len(x)), One)

\* void saxpy(Vector& x, float g, const Vector& y): x += g * y, g = w / One
saxpy(x, w, y) == [c \in 1..Len(x) |-> x[c] + Quot(w * y[c], One)]

\* ::sqrt of the fixed-point d
Sqrt(d) == CHOOSE r \in 0..(d * One) : r * r <= d * One /\ (r + 1) * (r + 1) > d * One

Abs(x) == IF x < 0 THEN -x ELSE x

\* the largest magnitude of an element of x
RECURSIVE MaxAbs(_, _)
MaxAbs(x, n) ==
    IF n = 0 THEN 0
    ELSE IF Abs(x[n]) > MaxAbs(x, n - 1) THEN Abs(x[n]) ELSE MaxAbs(x, n - 1)

\* A float holds the squares of elements of any magnitude met here; the
\* fixed-point product holds those of elements up to BigElement, and a
\* vector with a larger element is scaled down first, unit(x) being
\* unit(x / s).
BigElement == 1000
Scaled(x) ==
    LET m == MaxAbs(x, Len(x))
        sc == (m \div BigElement) + 1
    IN IF m <= BigElement THEN x ELSE [c \in 1..Len(x) |-> Quot(x[c], sc)]

\* void unit(Vector& x): a vector of length 0 is left as it is
unit(x) ==
    LET y == Scaled(x)
        len == Sqrt(dot(y, y))
    IN IF len = 0 THEN x ELSE [c \in 1..Len(x) |-> Quot(y[c] * One, len)]

----------------------------------------------------------------------------
(* train: the job queue, the producer and the workers. *)

\* const size_t batch_size = 800 (line 213), scaled down
batch_size == 2
\* n_workers ranges over 1 .. MaxWorkers
MaxWorkers == 2

\* A JobP: null, or a job holding the positions in sentences of its SentenceP
NullJob == [null |-> TRUE, sents |-> <<>>]
Job(ss) == [null |-> FALSE, sents |-> ss]

Workers == DOMAIN wpc
Waiting == {w \in Workers : wpc[w] = "wait"}

\* std::accumulate over vocab_ of count_ (line 162)
TotalWords ==
    LET keys == DOMAIN vocab_
        F[S \in SUBSET keys] ==
            IF S = {} THEN 0
            ELSE LET t == CHOOSE u \in S : TRUE
                 IN vocab_[t].count_ + F[S \ {t}]
    IN F[keys]

\* lines 219-222: push the Word of every token that vocab_ holds onto wl
RECURSIVE ResolveWords(_, _, _)
ResolveWords(toks, x, wl) ==
    IF x > Len(toks) THEN wl
    ELSE ResolveWords(toks, x + 1,
                      IF toks[x] \in DOMAIN vocab_ THEN Append(wl, toks[x])
                      ELSE wl)

\* enqueue_job (lines 202-206): under the mutex, push the job and
\* notify_one: one of the threads blocked in cond_var.wait, if any, wakes and
\* goes on to reacquire the mutex
EnqueueJob(j) ==
    /\ jobs' = Append(jobs, j)
    /\ IF Waiting = {} THEN wpc' = wpc
       ELSE \E w \in Waiting : wpc' = [wpc EXCEPT ![w] = "lock"]

\* `for (int i=0; i<n_workers; ++i) enqueue_job(JobP())': the number of
\* sentinels enqueued for n workers
SentinelCountMut(n) == n - 1
SentinelCount(n) == n

\* while (jobs.empty() && !done) cond_var.wait(lock): the loop's condition
MustWaitMut(js, d) == js = <<>> /\ d
MustWait(js, d) == js = <<>> /\ ~d

\* jobs.pop_front()
PopFrontMut(js) == js
PopFront(js) == Tail(js)

\* train_sentence's return value: the number of positions of words_
TrainSentenceCount(sentence) == Len(sentence.words_)

\* line 191: std::max(min_alpha, float(alpha0 * (1.0 - 1.0 * current_words /
\* total_words))), in double.  With total_words = 0 the quotient is NaN or
\* infinite, the product NaN or -infinity, and std::max returns min_alpha.
AlphaFactorMut(cw, tw) == One + Quot(cw * One, tw)
AlphaFactor(cw, tw) == One - Quot(cw * One, tw)
Alpha(alpha0, min_alpha, cw, tw) ==
    IF tw = 0 THEN min_alpha
    ELSE Max(min_alpha, Quot(alpha0 * AlphaFactor(cw, tw), One))

\* lines 162-212: total_words, the locals, the worker threads, the first job
TrainCall ==
    /\ bpc = "done"
    /\ calls' = calls + 1
    /\ \E n \in 1..MaxWorkers :
          /\ n_workers' = n
          /\ wpc' = [w \in 1..n |-> "lock"]
          /\ wjob' = [w \in 1..n |-> NullJob]
          /\ wread' = [w \in 1..n |-> 0]
          /\ wwords' = [w \in 1..n |-> 0]
          /\ wreg' = [w \in 1..n |-> 0]
          /\ walpha' = [w \in 1..n |-> 0]
    /\ alphas' = <<>>
    /\ total_words' = TotalWords
    /\ current_words' = 0
    /\ jobs' = <<>>
    /\ done' = FALSE
    /\ job' = Job(<<>>)
    /\ sent_i' = 1
    /\ ppc' = "loop"
    /\ UNCHANGED <<sentinel_i, train_ret, enqueued, trained>>
    /\ UNCHANGED bvars
    /\ UNCHANGED <<qvars, fvars, svars>>

\* the first call of train
TrainStart == ppc = "idle" /\ TrainCall

\* the largest number of calls of train on a model
MaxTrainCalls == 2

\* a later call of train, on the same sentences
TrainAgain == ppc = "returned" /\ calls < MaxTrainCalls /\ TrainCall

\* lines 214-229: one iteration of the sentence loop
ProducerSentence ==
    /\ ppc = "loop"
    /\ sent_i <= Len(sentences)
    /\ sent_i' = sent_i + 1
    /\ LET sentence == sentences[sent_i]
           filled == Append(job.sents, sent_i)
       IN IF sentence.tokens_ = <<>>
          THEN UNCHANGED <<sentences, job, jobs, wpc, enqueued>>
          ELSE /\ sentences' =
                     [sentences EXCEPT ![sent_i].words_ =
                         ResolveWords(sentence.tokens_, 1, sentence.words_)]
               /\ IF Len(filled) = batch_size
                  THEN /\ EnqueueJob(Job(filled))
                       /\ enqueued' = Append(enqueued, filled)
                       /\ job' = Job(<<>>)
                  ELSE /\ job' = Job(filled)
                       /\ UNCHANGED <<jobs, wpc, enqueued>>
    /\ UNCHANGED <<ppc, n_workers, total_words, current_words, done,
                   sentinel_i, train_ret, wjob, wread, wwords, wreg, trained>>
    /\ UNCHANGED <<vocab_, words_, syn0_, syn1_, syn0norm_, layer1_size_,
                   min_count_, bpc, build_ret, vocab, n_words, heap, tmp,
                   merge_i, stack, max_depth>>
    /\ UNCHANGED <<qvars, fvars, avars, svars>>

\* lines 231-232: the last, partly filled job
ProducerFlush ==
    /\ ppc = "loop"
    /\ sent_i > Len(sentences)
    /\ IF job.sents # <<>>
       THEN /\ EnqueueJob(job)
            /\ enqueued' = Append(enqueued, job.sents)
            /\ job' = NullJob
       ELSE UNCHANGED <<jobs, wpc, enqueued, job>>
    /\ ppc' = "setdone"
    /\ UNCHANGED <<n_workers, total_words, current_words, done, sent_i,
                   sentinel_i, train_ret, wjob, wread, wwords, wreg, trained>>
    /\ UNCHANGED bvars
    /\ UNCHANGED <<qvars, fvars, avars, svars>>

\* line 234: done = true, written without the mutex held
ProducerSetDone ==
    /\ ppc = "setdone"
    /\ done' = TRUE
    /\ sentinel_i' = 0
    /\ ppc' = "sentinels"
    /\ UNCHANGED <<n_workers, total_words, current_words, jobs, job, sent_i,
                   train_ret, wpc, wjob, wread, wwords, wreg, enqueued,
                   trained>>
    /\ UNCHANGED bvars
    /\ UNCHANGED <<qvars, fvars, avars, svars>>

\* line 235: one iteration of the sentinel loop
ProducerSentinel ==
    /\ ppc = "sentinels"
    /\ sentinel_i < SentinelCount(n_workers)
    /\ EnqueueJob(NullJob)
    /\ sentinel_i' = sentinel_i + 1
    /\ UNCHANGED <<ppc, n_workers, total_words, current_words, done, job,
                   sent_i, train_ret, wjob, wread, wwords, wreg, enqueued,
                   trained>>
    /\ UNCHANGED bvars
    /\ UNCHANGED <<qvars, fvars, avars, svars>>

\* lines 236-241: join every worker, then syn0norm_ and return 0
ProducerJoin ==
    /\ ppc = "sentinels"
    /\ ~(sentinel_i < SentinelCount(n_workers))
    /\ \A w \in Workers : wpc[w] = "exit"
    /\ syn0norm_' = [r \in DOMAIN syn0_ |-> unit(syn0_[r])]
    /\ train_ret' = 0
    /\ ppc' = "returned"
    /\ UNCHANGED <<n_workers, total_words, current_words, jobs, done, job,
                   sent_i, sentinel_i, wpc, wjob, wread, wwords, wreg,
                   enqueued, trained>>
    /\ UNCHANGED <<vocab_, words_, syn0_, syn1_, layer1_size_, min_count_,
                   sentences, bpc, build_ret, vocab, n_words, heap, tmp,
                   merge_i, stack, max_depth>>
    /\ UNCHANGED <<qvars, fvars, avars, svars>>

\* lines 178-186: with the mutex held, wait (releasing it) while the queue is
\* empty and done is false; leave the loop on an empty queue; else take the
\* front job
WorkerLock(w) ==
    /\ w \in Workers
    /\ wpc[w] = "lock"
    /\ IF MustWait(jobs, done)
       THEN /\ wpc' = [wpc EXCEPT ![w] = "wait"]
            /\ UNCHANGED <<jobs, wjob>>
       ELSE IF jobs = <<>>
       THEN /\ wpc' = [wpc EXCEPT ![w] = "exit"]
            /\ UNCHANGED <<jobs, wjob>>
       ELSE /\ wjob' = [wjob EXCEPT ![w] = Head(jobs)]
            /\ jobs' = PopFront(jobs)
            /\ wpc' = [wpc EXCEPT ![w] = "job"]
    /\ UNCHANGED <<ppc, n_workers, total_words, current_words, done, job,
                   sent_i, sentinel_i, train_ret, wread, wwords, wreg,
                   enqueued, trained>>
    /\ UNCHANGED bvars
    /\ UNCHANGED <<qvars, fvars, avars, svars>>

\* cond_var.wait may return without a notification
SpuriousWake(w) ==
    /\ w \in Workers
    /\ wpc[w] = "wait"
    /\ wpc' = [wpc EXCEPT ![w] = "lock"]
    /\ UNCHANGED <<ppc, n_workers, total_words, current_words, jobs, done,
                   job, sent_i, sentinel_i, train_ret, wjob, wread, wwords,
                   wreg, enqueued, trained>>
    /\ UNCHANGED bvars
    /\ UNCHANGED <<qvars, fvars, avars, svars>>

\* lines 188-191: a null job ends the loop; else alpha is computed from
\* current_words, read without a lock
WorkerJob(w) ==
    /\ w \in Workers
    /\ UNCHANGED calls
    /\ wpc[w] = "job"
    /\ IF wjob[w].null
       THEN /\ wpc' = [wpc EXCEPT ![w] = "exit"]
            /\ UNCHANGED <<wread, walpha, alphas>>
       ELSE /\ wpc' = [wpc EXCEPT ![w] = "train"]
            /\ wread' = [wread EXCEPT ![w] = current_words]
            /\ walpha' = [walpha EXCEPT ![w] =
                             Alpha(alpha_, min_alpha_, current_words,
                                   total_words)]
            /\ alphas' = Append(alphas, [read |-> current_words,
                                         alpha |-> walpha'[w]])
    /\ UNCHANGED <<ppc, n_workers, total_words, current_words, jobs, done,
                   job, sent_i, sentinel_i, train_ret, wjob, wwords, wreg,
                   enqueued, trained>>
    /\ UNCHANGED bvars
    /\ UNCHANGED <<qvars, fvars, svars>>

\* lines 192-196: train the job's sentences, then read current_words for
\* `current_words += words'
WorkerTrain(w) ==
    /\ w \in Workers
    /\ wpc[w] = "train"
    /\ LET ss == wjob[w].sents
       IN wwords' = [wwords EXCEPT ![w] =
                        SumTo([x \in 1..Len(ss) |->
                                  TrainSentenceCount(sentences[ss[x]])],
                              Len(ss))]
    /\ trained' = Append(trained, wjob[w].sents)
    /\ wreg' = [wreg EXCEPT ![w] = current_words]
    /\ wpc' = [wpc EXCEPT ![w] = "add"]
    /\ UNCHANGED <<ppc, n_workers, total_words, current_words, jobs, done,
                   job, sent_i, sentinel_i, train_ret, wjob, wread, enqueued>>
    /\ UNCHANGED bvars
    /\ UNCHANGED <<qvars, fvars, avars, svars>>

\* lines 196-199: write current_words, end of the iteration (job destroyed)
WorkerAdd(w) ==
    /\ w \in Workers
    /\ UNCHANGED calls
    /\ wpc[w] = "add"
    /\ current_words' = wreg[w] + wwords[w]
    /\ wjob' = [wjob EXCEPT ![w] = NullJob]
    /\ wread' = [wread EXCEPT ![w] = 0]
    /\ wwords' = [wwords EXCEPT ![w] = 0]
    /\ wreg' = [wreg EXCEPT ![w] = 0]
    /\ walpha' = [walpha EXCEPT ![w] = 0]
    /\ UNCHANGED alphas
    /\ wpc' = [wpc EXCEPT ![w] = "lock"]
    /\ UNCHANGED <<ppc, n_workers, total_words, jobs, done, job, sent_i,
                   sentinel_i, train_ret, enqueued, trained>>
    /\ UNCHANGED bvars
    /\ UNCHANGED <<qvars, fvars, svars>>

Producer ==
    \/ TrainStart
    \/ ProducerSentence
    \/ ProducerFlush
    \/ ProducerSetDone
    \/ ProducerSentinel
    \/ ProducerJoin

Worker(w) ==
    \/ WorkerLock(w)
    \/ WorkerJob(w)
    \/ WorkerTrain(w)
    \/ WorkerAdd(w)

NextTrain ==
    \/ NextVocab
    \/ Producer
    \/ \E w \in 1..MaxWorkers : Worker(w)
    \/ \E w \in 1..MaxWorkers : SpuriousWake(w)

----------------------------------------------------------------------------
(* most_similar: std::make_heap, std::pop_heap and std::sort_heap on a      *)
(* prefix of indexes, under comp.  most_similar calls pop_heap on a range   *)
(* whose last element it has just overwritten, which is no heap: what the   *)
(* call then does is what the linked library's algorithm does, so the two   *)
(* algorithms in use are modelled, libstdc++'s (__adjust_heap, __push_heap)  *)
(* and libc++'s (__sift_down, __floyd_sift_down, __sift_up).  An array a is *)
(* a sequence, offset i from first being a[i + 1].                          *)

At(a, i) == a[i + 1]
Put(a, i, v) == [a EXCEPT ![i + 1] = v]

\* auto comp = [&dists](int i, int j) { return dists[i] > dists[j]; }
comp_dists(d, i, j) == At(d, i) > At(d, j)

StdLibs == {"libstdc++", "libc++"}

\* ---- libstdc++

RECURSIVE GnuPushHeap(_, _, _, _, _)
GnuPushHeap(a, d, holeIndex, topIndex, value) ==
    IF holeIndex > topIndex
       /\ comp_dists(d, At(a, (holeIndex - 1) \div 2), value)
    THEN GnuPushHeap(Put(a, holeIndex, At(a, (holeIndex - 1) \div 2)), d,
                     (holeIndex - 1) \div 2, topIndex, value)
    ELSE Put(a, holeIndex, value)

\* the loop of __adjust_heap: the hole moves down to the larger child
RECURSIVE GnuAdjustDown(_, _, _, _, _)
GnuAdjustDown(a, d, holeIndex, secondChild, len) ==
    IF secondChild < (len - 1) \div 2
    THEN LET right == 2 * (secondChild + 1)
             child == IF comp_dists(d, At(a, right), At(a, right - 1))
                      THEN right - 1 ELSE right
         IN GnuAdjustDown(Put(a, holeIndex, At(a, child)), d, child, child, len)
    ELSE [a |-> a, holeIndex |-> holeIndex, secondChild |-> secondChild]

GnuAdjustHeap(a, d, holeIndex, len, value) ==
    LET down == GnuAdjustDown(a, d, holeIndex, holeIndex, len)
        only == 2 * (down.secondChild + 1) - 1
    IN IF len % 2 = 0 /\ down.secondChild = (len - 2) \div 2
       THEN GnuPushHeap(Put(down.a, down.holeIndex, At(down.a, only)), d,
                        only, holeIndex, value)
       ELSE GnuPushHeap(down.a, d, down.holeIndex, holeIndex, value)

RECURSIVE GnuMakeHeapFrom(_, _, _, _)
GnuMakeHeapFrom(a, d, parent, len) ==
    LET b == GnuAdjustHeap(a, d, parent, len, At(a, parent))
    IN IF parent = 0 THEN b ELSE GnuMakeHeapFrom(b, d, parent - 1, len)

GnuMakeHeap(a, d, len) ==
    IF len < 2 THEN a ELSE GnuMakeHeapFrom(a, d, (len - 2) \div 2, len)

\* __pop_heap(first, last - 1, last - 1): the value at the end goes into the
\* heap of the len - 1 elements before it, in place of the top
GnuPopHeap(a, d, len) ==
    IF len > 1
    THEN GnuAdjustHeap(Put(a, len - 1, At(a, 0)), d, 0, len - 1, At(a, len - 1))
    ELSE a

RECURSIVE GnuSortHeap(_, _, _)
GnuSortHeap(a, d, len) ==
    IF len > 1 THEN GnuSortHeap(GnuPopHeap(a, d, len), d, len - 1) ELSE a

\* ---- libc++

\* the larger child of the element at offset parent, len elements in all
LlvmChild(a, d, parent, len) ==
    LET left == 2 * parent + 1
    IN IF left + 1 < len /\ comp_dists(d, At(a, left), At(a, left + 1))
       THEN left + 1 ELSE left

RECURSIVE LlvmSiftDownLoop(_, _, _, _, _, _)
LlvmSiftDownLoop(a, d, len, start, child, top) ==
    LET b == Put(a, start, At(a, child))
    IN IF (len - 2) \div 2 < child THEN Put(b, child, top)
       ELSE LET next == LlvmChild(b, d, child, len)
            IN IF comp_dists(d, At(b, next), top) THEN Put(b, child, top)
               ELSE LlvmSiftDownLoop(b, d, len, child, next, top)

LlvmSiftDown(a, d, len, start) ==
    IF len < 2 \/ (len - 2) \div 2 < start THEN a
    ELSE LET child == LlvmChild(a, d, start, len)
         IN IF comp_dists(d, At(a, child), At(a, start)) THEN a
            ELSE LlvmSiftDownLoop(a, d, len, start, child, At(a, start))

RECURSIVE LlvmMakeHeapFrom(_, _, _, _)
LlvmMakeHeapFrom(a, d, start, len) ==
    IF start < 0 THEN a
    ELSE LlvmMakeHeapFrom(LlvmSiftDown(a, d, len, start), d, start - 1, len)

LlvmMakeHeap(a, d, len) ==
    IF len > 1 THEN LlvmMakeHeapFrom(a, d, (len - 2) \div 2, len) ELSE a

\* the hole left by the top moves down to a leaf, over all len elements
RECURSIVE LlvmFloydSiftDown(_, _, _, _)
LlvmFloydSiftDown(a, d, len, hole) ==
    LET child == LlvmChild(a, d, hole, len)
        b == Put(a, hole, At(a, child))
    IN IF child > (len - 2) \div 2 THEN [a |-> b, hole |-> child]
       ELSE LlvmFloydSiftDown(b, d, len, child)

RECURSIVE LlvmSiftUpLoop(_, _, _, _, _)
LlvmSiftUpLoop(a, d, last, ptr, t) ==
    LET b == Put(a, last, At(a, ptr))
    IN IF ptr = 0 THEN Put(b, ptr, t)
       ELSE LET up == (ptr - 1) \div 2
            IN IF comp_dists(d, At(b, up), t) THEN LlvmSiftUpLoop(b, d, ptr, up, t)
               ELSE Put(b, ptr, t)

\* __sift_up(first, last, comp, len): the element at offset len - 1 moves up
LlvmSiftUp(a, d, len) ==
    IF len > 1 /\ comp_dists(d, At(a, (len - 2) \div 2), At(a, len - 1))
    THEN LlvmSiftUpLoop(a, d, len - 1, (len - 2) \div 2, At(a, len - 1))
    ELSE a

LlvmPopHeap(a, d, len) ==
    IF len > 1
    THEN LET top == At(a, 0)
             down == LlvmFloydSiftDown(a, d, len, 0)
         IN IF down.hole = len - 1 THEN Put(down.a, down.hole, top)
            ELSE LlvmSiftUp(Put(Put(down.a, down.hole, At(down.a, len - 1)),
                                len - 1, top),
                            d, down.hole + 1)
    ELSE a

RECURSIVE LlvmSortHeap(_, _, _)
LlvmSortHeap(a, d, len) ==
    IF len > 1 THEN LlvmSortHeap(LlvmPopHeap(a, d, len), d, len - 1) ELSE a

\* ---- the calls, on [first, first + len)

make_heap(lib, a, d, len) ==
    IF lib = "libstdc++" THEN GnuMakeHeap(a, d, len) ELSE LlvmMakeHeap(a, d, len)

pop_heap(lib, a, d, len) ==
    IF lib = "libstdc++" THEN GnuPopHeap(a, d, len) ELSE LlvmPopHeap(a, d, len)

sort_heap(lib, a, d, len) ==
    IF lib = "libstdc++" THEN GnuSortHeap(a, d, len) ELSE LlvmSortHeap(a, d, len)

----------------------------------------------------------------------------
(* load.  A file is a sequence of lines, a line a sequence of tokens        *)
(* separated by white space; a token is a word, or an integer or a float    *)
(* numeral with its value.                                                  *)

StrTok(t) == [kind |-> "s", text |-> t, val |-> 0]
IntTok(v) == [kind |-> "i", text |-> ToString(v), val |-> v]
FltTok(v) == [kind |-> "f", text |-> ToString(v), val |-> v]

\* iss >> n_words >> layer1_size: an extraction that fails stores 0 and
\* makes every later one fail
HeaderInt(line, x) ==
    IF Len(line) >= x /\ \A y \in 1..x : line[y].kind = "i"
    THEN line[x].val ELSE 0

\* iss >> text
LineText(line) == IF line = <<>> THEN "" ELSE line[1].text

\* syn0_[i].resize(layer1_size) and the loop of `iss >> syn0_[i][j]': the
\* elements after the first failed extraction keep the 0 of the resize
LineVector(line, layer1_size) ==
    [j \in 1..layer1_size |->
        IF Len(line) >= j + 1 /\ \A y \in 2..(j + 1) : line[y].kind # "s"
        THEN IF line[j + 1].kind = "i" THEN line[j + 1].val * One
             ELSE line[j + 1].val
        ELSE 0]

\* one iteration of the loop over the data lines, i counting from 0
RECURSIVE LoadLines(_, _, _, _, _, _, _)
LoadLines(file, n, layer1_size, i, vm, wl, s0) ==
    IF i >= n THEN [ret |-> 0, vocab_ |-> vm, words_ |-> wl, syn0_ |-> s0]
    ELSE IF Len(file) < i + 2
    THEN [ret |-> -1, vocab_ |-> vm, words_ |-> wl, syn0_ |-> s0]
    ELSE LET line == file[i + 2]
             text == LineText(line)
         IN LoadLines(file, n, layer1_size, i + 1,
                      Emplace(vm, text, Word(i, text, 0, NullP, NullP)),
                      Append(wl, text),
                      [s0 EXCEPT ![i + 1] = LineVector(line, layer1_size)])

\* int load(const std::string& file)
Load(file) ==
    /\ lpc = "idle"
    /\ qpc = "idle"
    /\ lpc' = "returned"
    /\ lfile' = file
    /\ IF file = <<>>
       THEN /\ load_ret' = -1
            /\ UNCHANGED <<vocab_, words_, syn0_, syn0norm_, layer1_size_>>
       ELSE LET n == HeaderInt(file[1], 1)
                layer1_size == HeaderInt(file[1], 2)
                r == LoadLines(file, n, layer1_size, 0, <<>>, <<>>,
                               [x \in 1..n |-> <<>>])
            IN /\ load_ret' = r.ret
               /\ vocab_' = r.vocab_
               /\ words_' = r.words_
               /\ syn0_' = r.syn0_
               /\ IF r.ret = 0
                  THEN /\ layer1_size_' = layer1_size
                       /\ syn0norm_' = [x \in 1..n |-> unit(r.syn0_[x])]
                  ELSE UNCHANGED <<layer1_size_, syn0norm_>>
    /\ UNCHANGED <<syn1_, min_count_, sentences, bpc, build_ret, vocab,
                   n_words, heap, tmp, merge_i, stack, max_depth>>
    /\ UNCHANGED <<tvars, fvars, avars, spc, disk, saved>>
    /\ UNCHANGED <<qpc, positive, negative, topn, stl, mean, all_words, dists,
                   indexes, k, it, results, walk_i, walk_j, returned>>

----------------------------------------------------------------------------
(* most_similar *)

\* add_word (lines 300-308) for each word of ws from position x on, with
\* weight w: st is [mean, all_words]
RECURSIVE AddWords(_, _, _, _)
AddWords(ws, x, w, st) ==
    IF x > Len(ws) THEN st
    ELSE IF ws[x] \notin DOMAIN vocab_ THEN AddWords(ws, x + 1, w, st)
    ELSE LET word == vocab_[ws[x]]
         IN AddWords(ws, x + 1, w,
                     [mean |-> saxpy(st.mean, w, At(syn0norm_, word.index_)),
                      all_words |-> Append(st.all_words, word.index_)])

\* if (++j >= topn) break
WalkBreaks(j, n) == j >= n

\* std::find(all_words.begin(), all_words.end(), i) != all_words.end()
Found(aw, i) == \E x \in 1..Len(aw) : aw[x] = i

QueryLocalsIdle ==
    /\ mean = <<>>
    /\ all_words = <<>>
    /\ dists = <<>>
    /\ indexes = <<>>
    /\ k = 0
    /\ it = 0
    /\ results = <<>>
    /\ walk_i = 0
    /\ walk_j = 0
    /\ returned = <<>>

\* save not called yet
SaveIdle ==
    /\ spc = "idle"
    /\ disk = <<>>
    /\ saved = <<>>

\* neither load nor most_similar called yet, in a build linked with libs
QueryIdle(libs) ==
    /\ lpc = "idle"
    /\ lfile = <<>>
    /\ load_ret = 0
    /\ qpc = "idle"
    /\ positive = <<>>
    /\ negative = <<>>
    /\ topn = 0
    /\ stl \in libs
    /\ QueryLocalsIdle

\* lines 295-332: the early return; else mean, all_words, dists, indexes, k,
\* make_heap and the first pop_heap
MostSimilar(pos, neg, n) ==
    /\ qpc = "idle"
    /\ bpc \in {"idle", "done"}
    /\ ppc \in {"idle", "returned"}
    /\ positive' = pos
    /\ negative' = neg
    /\ topn' = n
    /\ IF (pos = <<>> /\ neg = <<>>) \/ syn0norm_ = <<>>
       THEN /\ qpc' = "returned"
            /\ UNCHANGED <<mean, all_words, dists, indexes, k, it>>
       ELSE /\ LET p == AddWords(pos, 1, One,
                                  [mean |-> ZeroVector(layer1_size_),
                                   all_words |-> <<>>])
                    pn == AddWords(neg, 1, -One, p)
               IN /\ mean' = unit(pn.mean)
                  /\ all_words' = pn.all_words
            /\ dists' = [x \in 1..Len(syn0norm_) |-> dot(syn0norm_[x], mean')]
            /\ k' = Min(n + Len(all_words'), Len(syn0norm_) - 1)
            /\ LET ix == [x \in 1..Len(syn0norm_) |-> x - 1]
               IN indexes' = pop_heap(stl, make_heap(stl, ix, dists', k' + 1),
                                      dists', k' + 1)
            /\ it' = k' + 1
            /\ qpc' = "scan"
    /\ UNCHANGED <<results, walk_i, walk_j, returned>>
    /\ UNCHANGED <<lpc, load_ret, stl>>
    /\ UNCHANGED <<bvars, tvars, fvars, avars, svars>>

\* lines 333-337: one iteration of `for (auto it = last + 1; it != end; ++it)'
ScanStep ==
    /\ qpc = "scan"
    /\ it < Len(indexes)
    /\ it' = it + 1
    /\ IF ~comp_dists(dists, At(indexes, it), At(indexes, 0))
       THEN UNCHANGED indexes
       ELSE indexes' = pop_heap(stl, Put(indexes, k, At(indexes, it)), dists, k + 1)
    /\ UNCHANGED <<lpc, load_ret, qpc, positive, negative, topn, stl, mean,
                   all_words, dists, k, results, walk_i, walk_j, returned>>
    /\ UNCHANGED <<bvars, tvars, fvars, avars, svars>>

\* line 339: std::sort_heap(first, last, comp), and the result loop's i, j
SortHeap ==
    /\ qpc = "scan"
    /\ it >= Len(indexes)
    /\ indexes' = sort_heap(stl, indexes, dists, k)
    /\ walk_i' = 0
    /\ walk_j' = 0
    /\ qpc' = "walk"
    /\ UNCHANGED <<lpc, load_ret, positive, negative, topn, stl, mean,
                   all_words, dists, k, it, results, returned>>
    /\ UNCHANGED <<bvars, tvars, fvars, avars, svars>>

\* lines 342-347: one iteration of the result loop
WalkStep ==
    /\ qpc = "walk"
    /\ walk_i < k
    /\ LET i == At(indexes, walk_i)
       IN IF Found(all_words, i)
          THEN /\ walk_i' = walk_i + 1
               /\ UNCHANGED <<results, returned, walk_j, qpc>>
          ELSE /\ results' = Append(results,
                                    <<vocab_[At(words_, i)].text_, At(dists, i)>>)
               /\ returned' = Append(returned, i)
               /\ walk_j' = walk_j + 1
               /\ IF WalkBreaks(walk_j + 1, topn)
                  THEN qpc' = "returned" /\ walk_i' = walk_i
                  ELSE qpc' = qpc /\ walk_i' = walk_i + 1
    /\ UNCHANGED <<lpc, load_ret, positive, negative, topn, stl, mean,
                   all_words, dists, indexes, k, it>>
    /\ UNCHANGED <<bvars, tvars, fvars, avars, svars>>

\* line 349: return results, the loop having run to i = k
WalkEnd ==
    /\ qpc = "walk"
    /\ ~(walk_i < k)
    /\ qpc' = "returned"
    /\ UNCHANGED <<lpc, load_ret, positive, negative, topn, stl, mean,
                   all_words, dists, indexes, k, it, results, walk_i, walk_j,
                   returned>>
    /\ UNCHANGED <<bvars, tvars, fvars, avars, svars>>

----------------------------------------------------------------------------
(* The corpora build_vocab is run on: for every     assignment of a count   *)
(* in 0..MaxCount to each token, the corpus of MaxCount sentences whose     *)
(* x-th sentence holds, in order, the tokens of count at least x.           *)

RECURSIVE TokensAtLeast(_, _, _)
TokensAtLeast(c, x, j) ==
    IF j > Len(TokenSeq) THEN <<>>
    ELSE (IF c[TokenSeq[j]] >= x THEN <<TokenSeq[j]>> ELSE <<>>)
            \o TokensAtLeast(c, x, j + 1)

CorpusOf(c) ==
    [x \in 1..MaxCount |-> [tokens_ |-> TokensAtLeast(c, x, 1), words_ |-> <<>>]]

Corpora == {CorpusOf(c) : c \in [Tokens -> 0..MaxCount]}

\* <<alpha, min_alpha>> as the constructor is given them: 1.0 and 0.04
DefaultRates == <<25, 1>>
\* other rates: 0.2 and 0.4 (min_alpha above alpha), 0 and 0
RatePairs == {DefaultRates, <<5, 10>>, <<0, 0>>}
Rates(r) == alpha_ = r[1] /\ min_alpha_ = r[2]

\* A Model just constructed, with layer1_size_ = 2 and min_count_ = mc.
FreshModel(mc) ==
    /\ vocab_ = <<>>
    /\ words_ = <<>>
    /\ syn0_ = <<>>
    /\ syn1_ = <<>>
    /\ syn0norm_ = <<>>
    /\ layer1_size_ = 2
    /\ min_count_ = mc

BuildIdle ==
    /\ bpc = "idle"
    /\ build_ret = 0
    /\ vocab = <<>>
    /\ n_words = 0
    /\ heap = {}
    /\ tmp = <<>>
    /\ merge_i = 0
    /\ stack = <<>>
    /\ max_depth = 0

TrainIdle ==
    /\ ppc = "idle"
    /\ n_workers = 0
    /\ total_words = 0
    /\ current_words = 0
    /\ jobs = <<>>
    /\ done = FALSE
    /\ job = NullJob
    /\ sent_i = 0
    /\ sentinel_i = 0
    /\ train_ret = 0
    /\ wpc = <<>>
    /\ wjob = <<>>
    /\ wread = <<>>
    /\ wwords = <<>>
    /\ wreg = <<>>
    /\ walpha = <<>>
    /\ alphas = <<>>
    /\ calls = 0
    /\ enqueued = <<>>
    /\ trained = <<>>

InitVocab ==
    /\ \E mc \in (-1)..MaxMinCount : FreshModel(mc)
    /\ Rates(DefaultRates)
    /\ sentences \in Corpora
    /\ BuildIdle
    /\ TrainIdle
    /\ QueryIdle({"libstdc++"})
    /\ SaveIdle

SpecVocab == InitVocab /\ [][NextVocab]_vars

----------------------------------------------------------------------------
(* The sentence collections train is run on: build_vocab    , then train,   *)
(* on up to MaxSentences sentences drawn from SentencePool.                 *)

MaxSentences == 3

SentencePool == {<<>>, <<"a">>, <<"b", "a">>}

RECURSIVE SeqsUpTo(_, _)
SeqsUpTo(S, n) ==
    IF n = 0 THEN {<<>>}
    ELSE LET shorter == SeqsUpTo(S, n - 1)
         IN shorter \cup {Append(q, x) : q \in shorter, x \in S}

TrainCorpora ==
    {[x \in 1..Len(q) |-> [tokens_ |-> q[x], words_ |-> <<>>]] :
        q \in SeqsUpTo(SentencePool, MaxSentences)}

InitTrain ==
    /\ \E mc \in 0..MaxMinCount : FreshModel(mc)
    /\ Rates(DefaultRates)
    /\ sentences \in TrainCorpora
    /\ BuildIdle
    /\ TrainIdle
    /\ QueryIdle({"libstdc++"})
    /\ SaveIdle

SpecTrain == InitTrain /\ [][NextTrain]_vars

\* Every thread that can take a step eventually takes one.  A spurious
\* wake-up is never owed.
FairSpecTrain ==
    /\ SpecTrain
    /\ WF_vars(Producer)
    /\ \A w \in 1..MaxWorkers : WF_vars(Worker(w))

\* n copies of the token sequence q
Copies(n, q) == [x \in 1..n |-> [tokens_ |-> q, words_ |-> <<>>]]

\* A collection of four batches: one of batch_size words, one of twice as
\* many, one more full batch and a last sentence.
RaceCorpus ==
    Copies(batch_size, <<"a">>) \o Copies(batch_size, <<"b", "a">>) \o
    Copies(batch_size + 1, <<"a">>)

\* build_vocab, then train and train again
NextAgain ==
    \/ NextTrain
    \/ TrainAgain

\* a sentence of a word that occurs once only, and two of another word
AgainPool == {<<"b">>, <<"a", "a">>, <<"a">>}

AgainCorpora ==
    {[x \in 1..Len(q) |-> [tokens_ |-> q[x], words_ |-> <<>>]] :
        q \in SeqsUpTo(AgainPool, batch_size)}

InitAgain ==
    /\ \E mc \in 0..MaxMinCount : FreshModel(mc)
    /\ Rates(DefaultRates)
    /\ sentences \in AgainCorpora
    /\ BuildIdle
    /\ TrainIdle
    /\ QueryIdle({"libstdc++"})
    /\ SaveIdle

SpecAgain == InitAgain /\ [][NextAgain]_vars

InitRace ==
    /\ FreshModel(0)
    /\ Rates(DefaultRates)
    /\ sentences = RaceCorpus
    /\ BuildIdle
    /\ TrainIdle
    /\ QueryIdle({"libstdc++"})
    /\ SaveIdle

\* build_vocab, then train, on RaceCorpus
SpecRace == InitRace /\ [][NextTrain]_vars

----------------------------------------------------------------------------
(* The models and queries most_similar is run on: a model     as train      *)
(* leaves it, or a freshly constructed model that load then fills from a    *)
(* file, then one call of most_similar.                                     *)

\* the largest topn
MaxTopn == 2
\* the largest number of words of a well-formed file
MaxFileWords == 5

\* unit vectors of dimension 2, and the zero vector
VectorPool == {<<25, 0>>, <<20, 15>>, <<15, 20>>, <<0, 25>>, <<-15, 20>>,
               <<0, 0>>}

FileWordSeq == <<"a", "b", "c", "d", "e", "f">>

\* the sequences of n distinct elements of S
Arrangements(S, n) ==
    {q \in [1..n -> S] : \A x, y \in 1..n : x # y => q[x] # q[y]}

\* The model train leaves for the distinct words texts, of the counts
\* given, whose rows train has brought to the values rows: words_[x] has
\* index_ x - 1 (build_vocab) and syn0norm_ holds the unit rows of syn0_.
\* The fields of Word that save, load and most_similar do not read are not
\* modelled here.
TrainedModelOf(texts, counts, rows) ==
    LET n == Len(texts) IN
    /\ vocab_ = [t \in {texts[x] : x \in 1..n} |->
                    LET x == CHOOSE y \in 1..n : texts[y] = t
                    IN Word(x - 1, t, counts[x], NullP, NullP)]
    /\ words_ = texts
    /\ syn0_ = rows
    /\ syn1_ = [x \in 1..n |-> ZeroVector(2)]
    /\ syn0norm_ = [x \in 1..n |-> unit(rows[x])]
    /\ layer1_size_ = 2
    /\ min_count_ = 0
    /\ sentences = <<>>
    /\ bpc = "done"
    /\ build_ret = 0
    /\ vocab = <<>>
    /\ n_words = n
    /\ heap = {}
    /\ tmp = <<>>
    /\ merge_i = 0
    /\ stack = <<>>
    /\ max_depth = 0
    /\ ppc = "returned"
    /\ n_workers = 1
    /\ total_words = SumTo(counts, n)
    /\ current_words = 0
    /\ jobs = <<>>
    /\ done = TRUE
    /\ job = NullJob
    /\ sent_i = 1
    /\ sentinel_i = 1
    /\ train_ret = 0
    /\ wpc = <<"exit">>
    /\ wjob = <<NullJob>>
    /\ wread = <<0>>
    /\ wwords = <<0>>
    /\ wreg = <<0>>
    /\ walpha = <<0>>
    /\ alphas = <<>>
    /\ calls = 1
    /\ alpha_ = DefaultRates[1]
    /\ min_alpha_ = DefaultRates[2]
    /\ enqueued = <<>>
    /\ trained = <<>>

\* the same for the n words TokenSeq[1..n], each of count 1
TrainedModel(n, rows) ==
    TrainedModelOf([x \in 1..n |-> TokenSeq[x]], [x \in 1..n |-> 1], rows)

\* a file as save writes it, for the words FileWordSeq[1..n] and the rows
FileOf(n, rows) ==
    <<<<IntTok(n), IntTok(2)>>>> \o
    [x \in 1..n |-> <<StrTok(FileWordSeq[x]), FltTok(rows[x][1]),
                      FltTok(rows[x][2])>>]

\* the files save writes for MaxFileWords words with distinct rows of length 1
WellFormedFiles ==
    {FileOf(MaxFileWords, rows) :
        rows \in Arrangements(VectorPool \ {<<0, 0>>}, MaxFileWords)}

\* files no save wrote: a word on two lines, a short line, a missing line,
\* a header that is no pair of integers, an empty file
OtherFiles ==
    { <<<<IntTok(3), IntTok(2)>>,
        <<StrTok("a"), FltTok(25), FltTok(0)>>,
        <<StrTok("a"), FltTok(20), FltTok(15)>>,
        <<StrTok("b"), FltTok(0), FltTok(25)>>>>,
      <<<<IntTok(2), IntTok(2)>>,
        <<StrTok("a"), FltTok(25)>>,
        <<StrTok("b"), IntTok(0), IntTok(1)>>>>,
      <<<<IntTok(2), IntTok(2)>>,
        <<StrTok("a"), FltTok(25), FltTok(0)>>>>,
      <<<<StrTok("garbage")>>>>,
      <<>> }

Files == WellFormedFiles \cup OtherFiles

\* the words of the query lists: two words of the models, one of none
QueryTexts == {"a", "c", "zz"}
QueryLists == {<<>>} \cup {<<t>> : t \in QueryTexts}

----------------------------------------------------------------------------
(* save *)

RECURSIVE NumDigits(_)
NumDigits(h) == IF h < 10 THEN 1 ELSE 1 + NumDigits(h \div 10)

RECURSIVE Pow10(_)
Pow10(n) == IF n = 0 THEN 1 ELSE 10 * Pow10(n - 1)

\* the significant digits operator<< keeps of a float (precision())
OutPrecision == 6

\* out << i for the float v: the numeral printed, as the number of
\* hundredths it denotes.  v / One is Abs(v) * (100 / One) hundredths; the
\* numeral keeps OutPrecision significant digits of it, rounded to nearest.
OutHundredths(v) ==
    LET h == Abs(v) * (100 \div One)
        d == NumDigits(h)
        u == Pow10(d - OutPrecision)
        r == IF d <= OutPrecision THEN h ELSE ((h + (u \div 2)) \div u) * u
    IN IF v < 0 THEN -r ELSE r

\* the float `iss >> float' reads from a numeral of r hundredths: the
\* nearest representable value
InFloat(r) ==
    LET q == (Abs(r) * One + 50) \div 100
    IN IF r < 0 THEN -q ELSE q

\* the token `out << " " << i' writes: a float with no fraction is printed
\* without a decimal point
OutFloat(v) ==
    LET r == OutHundredths(v)
    IN IF r % 100 = 0 THEN IntTok(r \div 100) ELSE FltTok(InFloat(r))

\* out << w->text_: an empty text leaves no token on the line
OutText(t) == IF t = "" THEN <<>> ELSE <<StrTok(t)>>

\* the line of word t
OutLine(t) ==
    OutText(t) \o
    [j \in 1..Len(At(syn0_, vocab_[t].index_)) |->
        OutFloat(At(syn0_, vocab_[t].index_)[j])]

\* std::sort(words.begin(), words.end(), count_ descending): the orders of
\* words_ it may leave, the order of equal counts being the library's
SortedWords ==
    {q \in Arrangements({words_[x] : x \in 1..Len(words_)}, Len(words_)) :
        \A x, y \in 1..Len(words_) :
           x < y => vocab_[q[x]].count_ >= vocab_[q[y]].count_}

\* the widths syn0_[0].size() may yield when syn0_ is empty
WildSizes == {0, 2}

\* int save(const std::string& file) const
Save ==
    /\ spc = "idle"
    /\ lpc = "idle"
    /\ qpc = "idle"
    /\ saved' = [words_ |-> words_, vocab_ |-> vocab_, syn0_ |-> syn0_,
                 layer1_size_ |-> layer1_size_]
    /\ IF syn0_ = <<>>
       THEN \* syn0_[0] of an empty vector: a fault, or any width
            \/ spc' = "trap" /\ disk' = <<>>
            \/ \E d \in WildSizes :
                  /\ spc' = "returned"
                  /\ disk' = <<<<IntTok(0), IntTok(d)>>>>
       ELSE \E q \in SortedWords :
               /\ spc' = "returned"
               /\ disk' = <<<<IntTok(Len(syn0_)), IntTok(Len(syn0_[1]))>>>> \o
                          [x \in 1..Len(q) |-> OutLine(q[x])]
    /\ UNCHANGED <<bvars, tvars, qvars, fvars, avars, lfile>>

\* load of the file save wrote
LoadSaved == spc = "returned" /\ Load(disk)

NextQuery ==
    \/ \E file \in Files : bpc = "idle" /\ Load(file)
    \/ \E pos \in QueryLists, neg \in QueryLists, n \in 0..MaxTopn :
          MostSimilar(pos, neg, n)
    \/ ScanStep
    \/ SortHeap
    \/ WalkStep
    \/ WalkEnd

InitQuery ==
    /\ \/ \E n \in 1..Len(TokenSeq) :
             \E rows \in Arrangements(VectorPool, n) : TrainedModel(n, rows)
       \/ /\ FreshModel(0)
          /\ Rates(DefaultRates)
          /\ sentences = <<>>
          /\ BuildIdle
          /\ TrainIdle
    /\ QueryIdle(StdLibs)
    /\ SaveIdle

SpecQuery == InitQuery /\ [][NextQuery]_vars

\* save, then load of the file written
NextSave ==
    \/ Save
    \/ LoadSaved

\* the word texts of the saved models; a token may be the empty string
SaveTexts == {<<"a">>, <<"a", "b">>, <<"b", "">>, <<"a", "b", "c">>}

\* the largest count of a word of a saved model
MaxSaveCount == 2

\* rows of dimension 2: 1 and 0, 0.04 and -0.6, 10000.04 and 1
SaveRowPool == {<<25, 0>>, <<1, -15>>, <<250001, 25>>}

InitSave ==
    /\ \/ \E texts \in SaveTexts :
             \E counts \in [1..Len(texts) -> 1..MaxSaveCount],
                rows \in [1..Len(texts) -> SaveRowPool] :
                TrainedModelOf(texts, counts, rows)
       \/ /\ FreshModel(0)
          /\ Rates(DefaultRates)
          /\ sentences = <<>>
          /\ BuildIdle
          /\ TrainIdle
    /\ QueryIdle({"libstdc++"})
    /\ SaveIdle

SpecSave == InitSave /\ [][NextSave]_vars

----------------------------------------------------------------------------
(* What build_vocab is to deliver, stated from the corpus. *)

\* the number of occurrences of token t in the corpus
CorpusCount(t) ==
    SumTo([s \in 1..Len(sentences) |->
              Cardinality({j \in 1..Len(sentences[s].tokens_) :
                              sentences[s].tokens_[j] = t})],
          Len(sentences))

CorpusTokens == {t \in Tokens : CorpusCount(t) > 0}

\* the tokens that survive the filter as the specification states it
Survivors == {t \in CorpusTokens : CorpusCount(t) > min_count_}

BuildSucceeded == bpc = "done" /\ build_ret = 0

RECURSIVE Pow2Rec(_)
Pow2Rec(e) == IF e = 0 THEN 1 ELSE 2 * Pow2Rec(e - 1)
Pow2Table == [e \in 0..Len(TokenSeq) |-> Pow2Rec(e)]
Pow2(e) == Pow2Table[e]

IsPrefix(s, t) == Len(s) <= Len(t) /\ SubSeq(t, 1, Len(s)) = s

\* C3: after a successful build_vocab on a fresh model, a token is in the
\* vocabulary iff its corpus count is strictly greater than min_count, and
\* each word's stored count is its corpus count.
C3_FilterStrictlyGreater ==
    BuildSucceeded =>
        /\ DOMAIN vocab_ = Survivors
        /\ \A t \in DOMAIN vocab_ : vocab_[t].count_ = CorpusCount(t)

\* a successful build in which a token of count min_count was excluded and a
\* token of count min_count + 1 was included
C3_Witness ==
    /\ BuildSucceeded
    /\ \E t \in CorpusTokens : CorpusCount(t) = min_count_ /\ t \notin DOMAIN vocab_
    /\ \E t \in CorpusTokens : CorpusCount(t) = min_count_ + 1 /\ t \in DOMAIN vocab_

\* C4: build_vocab returns a failure status whenever fewer than 2 distinct
\* tokens survive the min_count filter, and never proceeds to the Huffman
\* construction with 0 or 1 leaves.
C4_TooSmallFails ==
    /\ bpc \in {"merge", "walk", "alloc"} => Cardinality(Survivors) >= 2
    /\ (bpc = "done" /\ Cardinality(Survivors) < 2) => build_ret = -1

\* the weighted code length of the tree build_vocab built
WeightedLength ==
    SumTo([x \in 1..Len(words_) |->
              vocab_[words_[x]].count_ * Len(vocab_[words_[x]].codes_)],
          Len(words_))

SetMin(S) == CHOOSE m \in S : \A y \in S : m <= y

\* c + r, where r < 0 stands for `none'
AddCost(c, r) == IF r < 0 THEN -1 ELSE c + r

\* The least sum of cnt[y] * l[y] over y in x..n, over the code lengths
\* l[y] in 1..n that leave Kraft's inequality satisfied: the sum of
\* 2^(n - l[y]) over y in x..n is at most budget.  The lengths l (of words
\* 1..n, with budget 2^n) for which a binary prefix code exists are exactly
\* those satisfying the inequality.  No such lengths: -1.  A length for
\* word x that leaves less than 1 = 2^(n - n) for each later word leaves
\* no lengths for them, and is passed over.
RECURSIVE MinPrefixCost(_, _, _, _)
MinPrefixCost(cnt, n, x, budget) ==
    IF x > n THEN 0
    ELSE LET costs ==
                 {c \in {AddCost(cnt[x] * d,
                                 MinPrefixCost(cnt, n, x + 1,
                                               budget - Pow2(n - d))) :
                             d \in {e \in 1..n :
                                       budget - Pow2(n - e) >= n - x}} :
                     c >= 0}
         IN IF costs = {} THEN -1 ELSE SetMin(costs)

\* C5: for n >= 2 surviving words the Huffman tree is optimal: the sum over
\* the leaves of count * len(codes) is minimal among all binary prefix-code
\* assignments, whatever the tie-breaking of the heap.
C5_HuffmanOptimal ==
    (BuildSucceeded /\ Len(words_) >= 2) =>
        LET n == Len(words_)
            cnt == [x \in 1..n |-> vocab_[words_[x]].count_]
        IN WeightedLength = MinPrefixCost(cnt, n, 1, Pow2(n))

\* a successful build of 4 words, two of equal count, with codes of
\* different lengths
C5_Witness ==
    /\ BuildSucceeded
    /\ Cardinality(DOMAIN vocab_) = 4
    /\ \E t, u \in DOMAIN vocab_ :
          /\ t # u
          /\ vocab_[t].count_ = vocab_[u].count_
          /\ Len(vocab_[t].codes_) # Len(vocab_[u].codes_)

\* C6: after a successful build_vocab on a fresh model with n surviving
\* words, the leaves carry pairwise distinct indices that are exactly
\* [0, n), words_[i] has index i, exactly n - 1 internal nodes were created
\* and they carry the ids n, n+1, ..., 2n-2 in creation order.
C6_IndexRanges ==
    BuildSucceeded =>
        LET n == Cardinality(Survivors)
        IN /\ Len(words_) = n
           /\ \A x \in 1..Len(words_) : vocab_[words_[x]].index_ = x - 1
           /\ \A t, u \in DOMAIN vocab_ :
                 t # u => vocab_[t].index_ # vocab_[u].index_
           /\ {vocab_[t].index_ : t \in DOMAIN vocab_} = 0..(n - 1)
           /\ Len(tmp) = n - 1
           /\ \A j \in 1..Len(tmp) : tmp[j].index_ = n + j - 1
           /\ {tmp[j].index_ : j \in 1..Len(tmp)} = n..(2 * n - 2)

\* a successful build of 3 words, so with the internal nodes 3 and 4
C6_Witness ==
    /\ BuildSucceeded
    /\ Cardinality(Survivors) = 3
    /\ Len(tmp) = 2

\* the (codes, points) of the paths from node p down to the leaf target
RECURSIVE PathsTo(_, _, _, _, _)
PathsTo(p, codes, points, target, n) ==
    IF p = target THEN {[codes |-> codes, points |-> points]}
    ELSE IF p.leaf THEN {}
    ELSE LET w == tmp[p.pos]
         IN PathsTo(w.left_, Append(codes, 0),
                    Append(points, w.index_ - n), target, n)
            \cup PathsTo(w.right_, Append(codes, 1),
                         Append(points, w.index_ - n), target, n)

\* C7: after a successful build_vocab every leaf has non-empty codes and
\* points of equal length, codes being the branch bits (0 left, 1 right) and
\* points the (internal id - n) on the path from the root to the leaf;
\* internal nodes have empty codes and points; the codes of distinct leaves
\* are distinct and prefix-free.
C7_CodesAndPoints ==
    BuildSucceeded =>
        LET n == Cardinality(Survivors)
        IN /\ \A t \in DOMAIN vocab_ :
                 /\ vocab_[t].codes_ # <<>>
                 /\ Len(vocab_[t].codes_) = Len(vocab_[t].points_)
                 /\ \A root \in heap :
                       PathsTo(root, <<>>, <<>>, LeafP(t), n) =
                           {[codes |-> vocab_[t].codes_,
                             points |-> vocab_[t].points_]}
           /\ \A j \in 1..Len(tmp) :
                 tmp[j].codes_ = <<>> /\ tmp[j].points_ = <<>>
           /\ \A t, u \in DOMAIN vocab_ :
                 t # u => ~IsPrefix(vocab_[t].codes_, vocab_[u].codes_)

----------------------------------------------------------------------------
(* train *)

Range(q) == {q[x] : x \in DOMAIN q}
Occurrences(q, b) == Cardinality({x \in DOMAIN q : q[x] = b})
RealJobs(q) == {x \in DOMAIN q : ~q[x].null}

\* C1: once train has started its sentence loop, with n_workers >= 1 and
\* every thread scheduled fairly, train returns: the producer gets past the
\* join, every worker having left its loop.
C1_TrainTerminates ==
    (ppc = "loop") ~> (ppc = "returned" /\ \A w \in Workers : wpc[w] = "exit")

\* train has returned from a run in which two workers each trained a batch
\* and a sentinel was left in the queue
C1_Witness ==
    /\ ppc = "returned"
    /\ n_workers = 2
    /\ Len(trained) >= 2
    /\ jobs # <<>>

\* C2: no batch is with two workers or trained twice, only enqueued batches
\* are trained, and when train has returned every batch the producer
\* enqueued has been trained exactly once and none is left in the queue.
C2_EveryBatchOnce ==
    /\ \A b \in Range(trained) : Occurrences(trained, b) = 1
    /\ Range(trained) \subseteq Range(enqueued)
    /\ \A w1, w2 \in Workers :
          (w1 # w2 /\ ~wjob[w1].null /\ ~wjob[w2].null) => wjob[w1] # wjob[w2]
    /\ ppc = "returned" =>
          /\ \A b \in Range(enqueued) : Occurrences(trained, b) = 1
          /\ Len(trained) = Len(enqueued)
          /\ RealJobs(jobs) = {}

\* train has returned after two batches were enqueued and were trained in
\* the opposite order
C2_Witness ==
    /\ ppc = "returned"
    /\ Len(enqueued) = 2
    /\ trained = <<enqueued[2], enqueued[1]>>

----------------------------------------------------------------------------
(* most_similar *)

\* most_similar has returned, on a model that train or a successful load
\* left
QueryReturned ==
    /\ qpc = "returned"
    /\ \/ ppc = "returned"
       \/ lpc = "returned" /\ load_ret = 0

\* C8: no entry of the list most_similar returns has the text of a word of
\* positive or negative.
C8_NoQueryWordReturned ==
    QueryReturned =>
        \A x \in 1..Len(results) :
            results[x][1] \notin Range(positive) \cup Range(negative)

\* C9: the list most_similar returns has at most topn entries.
C9_AtMostTopn == QueryReturned => Len(results) <= topn

\* C10: the list most_similar returns is in non-increasing score order, and
\* each of its scores is at least that of every word that is neither
\* returned nor a query word.
C10_PrefixOfRanking ==
    QueryReturned =>
        /\ \A x \in 1..(Len(results) - 1) : results[x][2] >= results[x + 1][2]
        /\ \A x \in 1..Len(results) :
              \A i \in 0..(Len(dists) - 1) :
                 (~Found(all_words, i) /\ ~Found(returned, i)) =>
                    results[x][2] >= At(dists, i)

----------------------------------------------------------------------------
(* train: the learning rate *)

\* C11: every alpha a worker computes is at least min_alpha, and alpha is
\* non-increasing in the current_words it is computed from: for the values
\* computed in the run, and, for each of the RatePairs and the total_words
\* of the run, for every pair of counter values from 0 to twice total_words.
C11_AlphaClampedMonotone ==
    /\ \A x \in 1..Len(alphas) : alphas[x].alpha >= min_alpha_
    /\ \A w \in Workers : wpc[w] \in {"train", "add"} => walpha[w] >= min_alpha_
    /\ \A x, y \in 1..Len(alphas) :
          alphas[x].read <= alphas[y].read => alphas[x].alpha >= alphas[y].alpha
    /\ (ppc = "returned" /\ total_words > 0) =>
          \A r \in RatePairs : \A c1, c2 \in 0..(2 * total_words) :
             c1 <= c2 =>
                /\ Alpha(r[1], r[2], c2, total_words) >= r[2]
                /\ Alpha(r[1], r[2], c1, total_words)
                      >= Alpha(r[1], r[2], c2, total_words)

\* two alphas were computed, the later from a larger counter and strictly
\* smaller, and still above min_alpha
C11_Witness ==
    \E x, y \in 1..Len(alphas) :
       /\ x < y
       /\ alphas[x].read < alphas[y].read
       /\ alphas[x].alpha > alphas[y].alpha
       /\ alphas[y].alpha > min_alpha_

----------------------------------------------------------------------------
(* save and load *)

\* the row of the word of text t in a model of tables vm, s0
RowOf(vm, s0, t) == At(s0, vm[t].index_)

\* C12: load of the file save wrote succeeds and leaves the vocabulary size,
\* the dimension, the set of word texts and each text's row as they were at
\* the save, with index_ in file order and every count_ 0.
C12_SaveLoadRoundTrip ==
    (spc = "returned" /\ lpc = "returned") =>
       /\ load_ret = 0
       /\ Len(words_) = Len(saved.words_)
       /\ Len(syn0_) = Len(saved.syn0_)
       /\ layer1_size_ = saved.layer1_size_
       /\ DOMAIN vocab_ = DOMAIN saved.vocab_
       /\ \A t \in DOMAIN vocab_ :
             /\ t \in DOMAIN saved.vocab_ =>
                   RowOf(vocab_, syn0_, t) = RowOf(saved.vocab_, saved.syn0_, t)
             /\ vocab_[t].count_ = 0
       /\ \A x \in 1..Len(words_) : vocab_[words_[x]].index_ = x - 1

\* The same for the saved models whose rows print in OutPrecision digits and
\* whose texts are not empty.
C12_RoundTripOfPrintable ==
    (/\ spc = "returned" /\ lpc = "returned"
     /\ saved.syn0_ # <<>>
     /\ "" \notin DOMAIN saved.vocab_
     /\ \A x \in 1..Len(saved.syn0_) : \A j \in 1..Len(saved.syn0_[x]) :
           NumDigits(Abs(saved.syn0_[x][j]) * (100 \div One)) <= OutPrecision)
    => C12_SaveLoadRoundTrip

----------------------------------------------------------------------------
(* load of a malformed file *)

\* the header is no pair of integers
BadHeader(file) ==
    \/ file = <<>>
    \/ Len(file[1]) < 2
    \/ file[1][1].kind # "i"
    \/ file[1][2].kind # "i"

\* fewer data lines than the header's vocabulary size
MissingLine(file) ==
    ~BadHeader(file) /\ Len(file) - 1 < file[1][1].val

\* one of the data lines the header counts has fewer values after its
\* text than the header's dimension
ShortLine(file) ==
    /\ ~BadHeader(file)
    /\ \E x \in 2..Len(file) :
          /\ x - 1 <= file[1][1].val
          /\ Cardinality({y \in 2..Len(file[x]) : file[x][y].kind # "s"})
                < file[1][2].val

\* C13: load returns -1 for a file whose header is no pair of integers,
\* that has fewer data lines than its header says, or that has a data line
\* with fewer values than the dimension.
C13_MalformedFileFails ==
    (lpc = "returned"
        /\ (BadHeader(lfile) \/ MissingLine(lfile) \/ ShortLine(lfile)))
    => load_ret = -1

\* What load does return -1 for: no header line at all, or a missing data
\* line.
C13_NoLineFails ==
    (lpc = "returned" /\ (lfile = <<>> \/ MissingLine(lfile)))
    => load_ret = -1

----------------------------------------------------------------------------
(* train: the learning rates across the workers *)

\* C14: the alphas the workers compute, in the order they are computed, never
\* increase, and no worker reads a current_words smaller than one read
\* before.
C14_RatesNeverIncrease ==
    \A x, y \in 1..Len(alphas) :
       x < y => /\ alphas[x].alpha >= alphas[y].alpha
                /\ alphas[x].read <= alphas[y].read

\* With one worker they never do.
C14_OneWorkerRatesNeverIncrease ==
    (ppc # "idle" /\ n_workers = 1) => C14_RatesNeverIncrease

----------------------------------------------------------------------------
(* train: the sentences of the batches *)

\* the tokens of toks that vocab_ holds, in order
RECURSIVE InVocabulary(_)
InVocabulary(toks) ==
    IF toks = <<>> THEN <<>>
    ELSE IF Head(toks) \in DOMAIN vocab_
         THEN <<Head(toks)>> \o InVocabulary(Tail(toks))
         ELSE InVocabulary(Tail(toks))

\* C15: every sentence of every batch handed to enqueue_job has a word of
\* the vocabulary: its words_ is not empty.
C15_NoWordlessSentenceDispatched ==
    \A b \in 1..Len(enqueued) : \A x \in 1..Len(enqueued[b]) :
       sentences[enqueued[b][x]].words_ # <<>>

\* What the sentence loop does skip: no sentence of a batch has empty
\* tokens_.
C15_NoEmptySentenceDispatched ==
    \A b \in 1..Len(enqueued) : \A x \in 1..Len(enqueued[b]) :
       sentences[enqueued[b][x]].tokens_ # <<>>

\* the sentences train has resolved hold the tokens the vocabulary holds
WordsAreTokensInVocabulary ==
    \A x \in 1..Len(sentences) :
       sentences[x].tokens_ # <<>> =>
          sentences[x].words_ = InVocabulary(sentences[x].tokens_)

\* C16: at the return of every call of train, the second included, the
\* words_ of each dispatched sentence is its tokens_ without the tokens the
\* vocabulary lacks, each resolved once.
C16_WordsResolvedOnce ==
    (ppc = "returned") => WordsAreTokensInVocabulary

\* At the return of the first call it is.
C16_FirstCallResolvesOnce ==
    (ppc = "returned" /\ calls = 1) => WordsAreTokensInVocabulary

\* tokens_ is never assigned
C16_TokensUnchanged ==
    [][\A x \in 1..Len(sentences) :
          sentences'[x].tokens_ = sentences[x].tokens_]_vars

----------------------------------------------------------------------------
(* train: the exit of a worker *)

\* C17: a worker has left its loop only with done set, no job other than a
\* null one in the queue, and the producer past its last enqueue_job of a
\* job of sentences.
C17_ExitOnlyAfterLastBatch ==
    \A w \in Workers :
       wpc[w] = "exit" =>
          /\ done
          /\ \A x \in 1..Len(jobs) : jobs[x].null
          /\ ppc \in {"sentinels", "returned"}

\* a worker has left its loop while another still trains a job of sentences
C17_Witness ==
    \E w1, w2 \in Workers :
       /\ wpc[w1] = "exit"
       /\ wpc[w2] \in {"train", "add"}
       /\ ~wjob[w2].null
       /\ enqueued # <<>>

----------------------------------------------------------------------------
(* build_vocab: the tables and the indices train_sentence reads them at *)

\* C18: after a successful build_vocab with n surviving words, syn0_ has n
\* rows and syn1_ at least n - 1, each of layer1_size_ elements, every
\* points_ entry of a word is in 0 .. n-2, and so the row syn0_[index_] of
\* every word and the row syn1_[points_[b]] of every entry exist.
C18_TablesCoverIndices ==
    BuildSucceeded =>
        LET n == Cardinality(Survivors)
        IN /\ Len(syn0_) = n
           /\ Len(syn1_) >= n - 1
           /\ \A r \in 1..Len(syn0_) : Len(syn0_[r]) = layer1_size_
           /\ \A r \in 1..Len(syn1_) : Len(syn1_[r]) = layer1_size_
           /\ \A t \in DOMAIN vocab_ :
                 /\ vocab_[t].index_ + 1 \in DOMAIN syn0_
                 /\ \A b \in 1..Len(vocab_[t].points_) :
                       /\ vocab_[t].points_[b] \in 0..(n - 2)
                       /\ vocab_[t].points_[b] + 1 \in DOMAIN syn1_

\* a successful build of 3 or more words, one of them with the points n - 2
\* (the root) and 0 (the first internal node)
C18_Witness ==
    /\ BuildSucceeded
    /\ Cardinality(Survivors) >= 3
    /\ \E t \in DOMAIN vocab_ :
          \E b1, b2 \in 1..Len(vocab_[t].points_) :
             /\ vocab_[t].points_[b1] = Cardinality(Survivors) - 2
             /\ vocab_[t].points_[b2] = 0

----------------------------------------------------------------------------
(* most_similar: the number of results *)

\* the indices of the words of the vocabulary that are no query word
NonQueryIndices ==
    {i \in 0..(Len(syn0norm_) - 1) : ~Found(all_words, i)}

\* C19: a call of most_similar with topn >= 1 and a query word of the
\* vocabulary returns as many entries as the smaller of topn and the number
\* of words of the vocabulary that are no query word.
C19_ExactlyTopnOrAllOthers ==
    (QueryReturned /\ topn >= 1 /\ all_words # <<>>) =>
        Len(results) = Min(topn, Cardinality(NonQueryIndices))

\* When the vocabulary has more than topn + |all_words| words, the call
\* under libstdc++ does return topn entries.
C19_TopnOfLargeVocabulary ==
    (QueryReturned /\ topn >= 1 /\ all_words # <<>> /\ stl = "libstdc++"
        /\ Len(syn0norm_) > topn + Len(all_words)) =>
        Len(results) = topn

=============================================================================
